---- MODULE Spec2Model ----
(***************************************************************************)
(* Model of backend/server.py: the recycling-rewards API over a document   *)
(* store (collections users, containers, rewards, scans).                  *)
(*                                                                         *)
(* Every handler is an async function; control can pass to another         *)
(* request at each `await`.  A handler is therefore modelled as a process  *)
(* whose steps are the awaited database operations, each taken together    *)
(* with the synchronous code that follows it up to the next await.         *)
(*                                                                         *)
(* Representation choices:                                                 *)
(*   - recycledKg is held in tenths of a kilogram (1 point = 0.1 kg), so   *)
(*     points_earned * 0.1 kg is points_earned tenths;                     *)
(*   - timestamps and the profile fields that no handler computes with     *)
(*     (studentId, name, password, avatar, image, address, ...) are left   *)
(*     out of the documents;                                               *)
(*   - an ObjectId is a unique key: for users the insertion number, for    *)
(*     seeded documents the pair <<inserting request, position in the      *)
(*     seed list>>;                                                        *)
(*   - the database outlives the server, so a run starts either on the     *)
(*     empty store or on UsedStore, a store that the handlers produce      *)
(*     from the empty one (init-data, a login and six scans).              *)
(***************************************************************************)
EXTENDS Integers, Sequences, FiniteSets, Bags, TLC

(* ------------------------------ bounds --------------------------------- *)

\* a run starts at most this many scan and redeem requests
MaxWrites == 2
\* sampled outcomes of random.randint(a, b): a, b and the multiples of this
SampleStep == 50
\* largest argument given to the category functions in SpecFn
MaxArg == 1100

\* the request slots: requests that can be in flight at the same time
Procs == {1, 2}

(* --------------------------- category logic ---------------------------- *)

None == <<>>

\* variant: the Oro threshold compared with > instead of >=
get_category_from_points_strict(points) ==
    IF points >= 1000 THEN "Black"
    ELSE IF points >= 600 THEN "Diamante"
    ELSE IF points > 300 THEN "Oro"
    ELSE IF points >= 100 THEN "Plata"
    ELSE "Clásico"

get_category_from_points(points) ==
    IF points >= 1000 THEN "Black"
    ELSE IF points >= 600 THEN "Diamante"
    ELSE IF points >= 300 THEN "Oro"
    ELSE IF points >= 100 THEN "Plata"
    ELSE "Clásico"

thresholds ==
    << <<100, "Plata">>, <<300, "Oro">>, <<600, "Diamante">>, <<1000, "Black">> >>

\* progress = (points / threshold) * 100 is kept as the exact fraction
\* <<numerator, denominator>>
RECURSIVE next_category_loop(_, _)
next_category_loop(points, i) ==
    IF i > Len(thresholds) THEN None
    ELSE IF points < thresholds[i][1]
         THEN [name          |-> thresholds[i][2],
               pointsNeeded  |-> thresholds[i][1] - points,
               currentPoints |-> points,
               totalPoints   |-> thresholds[i][1],
               progress      |-> <<points * 100, thresholds[i][1]>>]
         ELSE next_category_loop(points, i + 1)

\* variant: the loop over the thresholds skips the first one
get_next_category_info_skip(points) == next_category_loop(points, 2)

get_next_category_info(points) == next_category_loop(points, 1)

get_category_requirements(category) ==
    CASE category = "Clásico"  -> 0
      [] category = "Plata"    -> 100
      [] category = "Oro"      -> 300
      [] category = "Diamante" -> 600
      [] category = "Black"    -> 1000
      [] OTHER                 -> 0

cat_order == <<"Clásico", "Plata", "Oro", "Diamante", "Black">>

\* list.index(x): position of the first occurrence, counted from 0
index(list, x) == (CHOOSE i \in 1 .. Len(list) :
                      list[i] = x /\ \A j \in 1 .. (i - 1) : list[j] # x) - 1

\* random.randint(a, b) returns any integer of a..b; the model samples
randint(a, b) == {x \in a .. b : x = a \/ x = b \/ x % SampleStep = 0}

(* ----------------------------- seed data ------------------------------- *)

containers_data ==
    << [name |-> "Contenedor A - Biblioteca",      status |-> "operational"],
       [name |-> "Contenedor B - Cafetería",       status |-> "operational"],
       [name |-> "Contenedor C - Laboratorios",    status |-> "maintenance"],
       [name |-> "Contenedor D - Gimnasio",        status |-> "operational"],
       [name |-> "Contenedor E - Estacionamiento", status |-> "operational"] >>

rewards_data ==
    << [title |-> "Café Gratis",             pointsCost |-> 50,   category |-> "Clásico"],
       [title |-> "Descuento 10% Librería",  pointsCost |-> 80,   category |-> "Clásico"],
       [title |-> "Snack Gratis",            pointsCost |-> 30,   category |-> "Clásico"],
       [title |-> "Cuaderno Universitario",  pointsCost |-> 120,  category |-> "Plata"],
       [title |-> "Vale S/10 Cafetería",     pointsCost |-> 150,  category |-> "Plata"],
       [title |-> "Set de Lapiceros",        pointsCost |-> 100,  category |-> "Plata"],
       [title |-> "Vale S/20 Librería",      pointsCost |-> 300,  category |-> "Oro"],
       [title |-> "Mochila Ecológica",       pointsCost |-> 400,  category |-> "Oro"],
       [title |-> "Almuerzo Gratis",         pointsCost |-> 250,  category |-> "Oro"],
       [title |-> "Vale S/50 Multiuso",      pointsCost |-> 700,  category |-> "Diamante"],
       [title |-> "Laptop Cooling Pad",      pointsCost |-> 800,  category |-> "Diamante"],
       [title |-> "Vale S/100 Premium",      pointsCost |-> 1200, category |-> "Black"],
       [title |-> "Tablet Ecológica",        pointsCost |-> 1500, category |-> "Black"] >>

(* ------------------------------- state --------------------------------- *)

VARIABLES
    users,       \* db.users: sequence of user documents, _id = position
    containers,  \* db.containers: set of container documents
    rewards,     \* db.rewards: set of reward documents
    scans,       \* db.scans: bag of audit records
    procs,       \* the requests in flight: position and local variables
    response,    \* the response sent last
    budget,      \* scan and redeem requests the run may still start
    fnP, fnQ,    \* SpecFn: arguments of the category functions
    fnCatP, fnCatQ, fnNext   \* SpecFn: their results

dbvars == <<users, containers, rewards, scans>>
fnvars == <<fnP, fnQ, fnCatP, fnCatQ, fnNext>>
vars == <<users, containers, rewards, scans, procs, response, budget,
          fnP, fnQ, fnCatP, fnCatQ, fnNext>>

\* class User: the defaults of a new document
User(email) ==
    [email         |-> email,
     points        |-> 0,
     category      |-> "Clásico",
     pointsHistory |-> <<>>,
     recycledKg    |-> 0]

\* a request string that ObjectId() accepts, and one it rejects
Oid(k) == [valid |-> TRUE, key |-> k, text |-> ""]
Text(s) == [valid |-> FALSE, key |-> 0, text |-> s]

Idle ==
    [pc            |-> "idle",
     request       |-> None,
     user          |-> None,
     reward        |-> None,
     container     |-> None,
     points_earned |-> 0,
     i             |-> 0]

HTTPException(status_code, detail) == [status |-> status_code, detail |-> detail]

Return(body) == [status |-> 200, detail |-> "", body |-> body]

\* the handler of slot p ends with response r
Respond(p, r) ==
    /\ procs' = [procs EXCEPT ![p] = Idle]
    /\ response' = r

\* the handler of slot p goes on with local state l
Continue(p, l) ==
    /\ procs' = [procs EXCEPT ![p] = l]
    /\ UNCHANGED response

Free(p) == procs[p].pc = "idle"

(* ------------------------- stores a run starts on ----------------------- *)

seed_containers(p) ==
    {[_id |-> <<p, k>>] @@ containers_data[k] : k \in 1 .. Len(containers_data)}

seed_rewards(p) ==
    {[_id |-> <<p, k>>] @@ rewards_data[k] : k \in 1 .. Len(rewards_data)}

earned_item(points_earned, container) ==
    [points      |-> points_earned,
     description |-> <<"Reciclaje en", container.name>>,
     type        |-> "earned"]

\* the database of a fresh deployment
EmptyStore ==
    [users |-> <<>>, containers |-> {}, rewards |-> {}, scans |-> EmptyBag]

\* the database after init-data, one login and six scans of 50 points at
\* container A, all served by slot 1 one after the other
UsedStore ==
    [users      |-> << [_id |-> 1] @@
                       [User("ana@uni.edu") EXCEPT
                          !.points = 300,
                          !.category = "Oro",
                          !.pointsHistory =
                              [k \in 1 .. 6 |-> earned_item(50, containers_data[1])],
                          !.recycledKg = 300] >>,
     containers |-> seed_containers(1),
     rewards    |-> seed_rewards(1),
     scans      |-> [r \in {[userId |-> Oid(1), containerId |-> <<1, 1>>,
                            pointsEarned |-> 50]} |-> 6]]

Init ==
    /\ \E store \in {EmptyStore, UsedStore} :
          /\ users = store.users
          /\ containers = store.containers
          /\ rewards = store.rewards
          /\ scans = store.scans
    /\ procs = [p \in Procs |-> Idle]
    /\ response = None
    /\ budget = MaxWrites
    /\ fnP = 0 /\ fnQ = 0
    /\ fnCatP = "unset" /\ fnCatQ = "unset" /\ fnNext = <<>>

(* --------------------------- request inputs ---------------------------- *)

Emails == {"ana@uni.edu"}

UserIdInputs == {Oid(1), Text("not-an-id")}

RewardIdInputs == {Oid(<<1, 1>>), Oid(<<1, 9>>), Text("not-an-id")}

QrInputs == {Oid(<<1, 1>>), Oid(<<1, 3>>),
             Text(containers_data[1].name), Text("not-a-container")}

(* --------------------------- store queries ----------------------------- *)

\* db.users.find_one({"email": email}): the first match, or None
find_user_by_email(email) ==
    IF \E k \in 1 .. Len(users) : users[k].email = email
    THEN users[CHOOSE k \in 1 .. Len(users) :
                   /\ users[k].email = email
                   /\ \A j \in 1 .. (k - 1) : users[j].email # email]
    ELSE None

\* db.users.find_one({"_id": oid})
find_user_by_id(oid) ==
    IF \E k \in 1 .. Len(users) : users[k]._id = oid.key
    THEN users[CHOOSE k \in 1 .. Len(users) : users[k]._id = oid.key]
    ELSE None

\* the documents find_one(query) may return: a match, or None without one
find_one(matches) == IF matches = {} THEN {None} ELSE matches

\* db.users.update_one({"_id": oid}, {"$set": fields, "$push": item});
\* fields is a record holding the fields that are set
update_one(oid, fields, history_item) ==
    [k \in 1 .. Len(users) |->
        IF users[k]._id = oid.key
        THEN [f \in DOMAIN users[k] |->
                 IF f = "pointsHistory" THEN Append(users[k].pointsHistory, history_item)
                 ELSE IF f \in DOMAIN fields THEN fields[f]
                 ELSE users[k][f]]
        ELSE users[k]]

(* ------------------------------- login --------------------------------- *)

StartLogin(p, email) ==
    /\ Free(p)
    /\ Continue(p, [Idle EXCEPT !.pc = "login_find", !.request = [email |-> email]])
    /\ UNCHANGED <<dbvars, budget, fnvars>>

AuthResponse(user) ==
    Return([success |-> TRUE, id |-> user._id, email |-> user.email,
            points |-> user.points, category |-> user.category])

LoginFind(p) ==
    /\ procs[p].pc = "login_find"
    /\ LET user == find_user_by_email(procs[p].request.email) IN
       IF user = None
       THEN Continue(p, [procs[p] EXCEPT !.pc = "login_insert",
                                         !.user = User(procs[p].request.email)])
       ELSE Respond(p, AuthResponse(user))
    /\ UNCHANGED <<dbvars, budget, fnvars>>

LoginInsert(p) ==
    /\ procs[p].pc = "login_insert"
    /\ LET inserted_id == Len(users) + 1 IN
       /\ users' = Append(users, [_id |-> inserted_id] @@ procs[p].user)
       /\ Continue(p, [procs[p] EXCEPT !.pc = "login_refetch", !.i = inserted_id])
    /\ UNCHANGED <<containers, rewards, scans, budget, fnvars>>

LoginRefetch(p) ==
    /\ procs[p].pc = "login_refetch"
    /\ Respond(p, AuthResponse(find_user_by_id(Oid(procs[p].i))))
    /\ UNCHANGED <<dbvars, budget, fnvars>>

(* ------------------------------ register ------------------------------- *)

StartRegister(p, email) ==
    /\ Free(p)
    /\ Continue(p, [Idle EXCEPT !.pc = "register_find", !.request = [email |-> email]])
    /\ UNCHANGED <<dbvars, budget, fnvars>>

RegisterFind(p) ==
    /\ procs[p].pc = "register_find"
    /\ LET existing == find_user_by_email(procs[p].request.email) IN
       IF existing # None
       THEN Respond(p, HTTPException(400, "Usuario ya existe"))
       ELSE Continue(p, [procs[p] EXCEPT !.pc = "register_insert",
                                         !.user = User(procs[p].request.email)])
    /\ UNCHANGED <<dbvars, budget, fnvars>>

RegisterInsert(p) ==
    /\ procs[p].pc = "register_insert"
    /\ LET inserted_id == Len(users) + 1 IN
       /\ users' = Append(users, [_id |-> inserted_id] @@ procs[p].user)
       /\ Continue(p, [procs[p] EXCEPT !.pc = "register_refetch", !.i = inserted_id])
    /\ UNCHANGED <<containers, rewards, scans, budget, fnvars>>

RegisterRefetch(p) ==
    /\ procs[p].pc = "register_refetch"
    /\ Respond(p, AuthResponse(find_user_by_id(Oid(procs[p].i))))
    /\ UNCHANGED <<dbvars, budget, fnvars>>

(* ------------------------------- redeem -------------------------------- *)

StartRedeem(p, userId, rewardId) ==
    /\ Free(p)
    /\ budget > 0
    /\ budget' = budget - 1
    /\ IF ~userId.valid
       THEN Respond(p, HTTPException(400, "InvalidId"))
       ELSE Continue(p, [Idle EXCEPT !.pc = "redeem_find_user",
                                     !.request = [userId |-> userId,
                                                  rewardId |-> rewardId]])
    /\ UNCHANGED <<dbvars, fnvars>>

RedeemFindUser(p) ==
    /\ procs[p].pc = "redeem_find_user"
    /\ LET user == find_user_by_id(procs[p].request.userId) IN
       IF user = None
       THEN Respond(p, HTTPException(404, "Usuario no encontrado"))
       ELSE IF ~procs[p].request.rewardId.valid
       THEN Respond(p, HTTPException(400, "InvalidId"))
       ELSE Continue(p, [procs[p] EXCEPT !.pc = "redeem_find_reward", !.user = user])
    /\ UNCHANGED <<dbvars, budget, fnvars>>

\* variant: the points check is missing
redeem_checks_no_points(user, reward) ==
    IF reward = None
    THEN HTTPException(404, "Recompensa no encontrada")
    ELSE IF index(cat_order, user.category) < index(cat_order, reward.category)
    THEN HTTPException(400, "Categoría insuficiente")
    ELSE None

\* variant: the category check is missing
redeem_checks_no_category(user, reward) ==
    IF reward = None
    THEN HTTPException(404, "Recompensa no encontrada")
    ELSE IF user.points < reward.pointsCost
    THEN HTTPException(400, "Puntos insuficientes")
    ELSE None

\* the checks of redeem_reward on the documents it has read: the error
\* raised, or None
redeem_checks(user, reward) ==
    IF reward = None
    THEN HTTPException(404, "Recompensa no encontrada")
    ELSE IF user.points < reward.pointsCost
    THEN HTTPException(400, "Puntos insuficientes")
    ELSE IF index(cat_order, user.category) < index(cat_order, reward.category)
    THEN HTTPException(400, "Categoría insuficiente")
    ELSE None

RedeemFindReward(p) ==
    /\ procs[p].pc = "redeem_find_reward"
    /\ \E reward \in find_one({r \in rewards : r._id = procs[p].request.rewardId.key}) :
          LET error == redeem_checks(procs[p].user, reward) IN
          IF error # None
          THEN Respond(p, error)
          ELSE Continue(p, [procs[p] EXCEPT !.pc = "redeem_update", !.reward = reward])
    /\ UNCHANGED <<dbvars, budget, fnvars>>

\* variant: the history entry carries the cost without the minus sign
redeemed_item_positive(reward) ==
    [points      |-> reward.pointsCost,
     description |-> <<"Canjeado", reward.title>>,
     type        |-> "redeemed"]

redeemed_item(reward) ==
    [points      |-> -reward.pointsCost,
     description |-> <<"Canjeado", reward.title>>,
     type        |-> "redeemed"]

\* variant: the update sets points and leaves category as it was read
RedeemUpdate_stale_category(p) ==
    /\ procs[p].pc = "redeem_update"
    /\ LET user == procs[p].user
           reward == procs[p].reward
           new_points == user.points - reward.pointsCost
           new_category == user.category
       IN
       /\ users' = update_one(procs[p].request.userId,
                              [points |-> new_points, category |-> new_category],
                              redeemed_item(reward))
       /\ Respond(p, Return([success |-> TRUE, newPoints |-> new_points,
                             newCategory |-> new_category]))
    /\ UNCHANGED <<containers, rewards, scans, budget, fnvars>>

\* variant: the cost is taken from the points in the store at the time of the
\* write, as an atomic decrement would do
RedeemUpdate_from_store(p) ==
    /\ procs[p].pc = "redeem_update"
    /\ LET user == find_user_by_id(procs[p].request.userId)
           reward == procs[p].reward
           new_points == user.points - reward.pointsCost
           new_category == get_category_from_points(new_points)
       IN
       /\ users' = update_one(procs[p].request.userId,
                              [points |-> new_points, category |-> new_category],
                              redeemed_item(reward))
       /\ Respond(p, Return([success |-> TRUE, newPoints |-> new_points,
                             newCategory |-> new_category]))
    /\ UNCHANGED <<containers, rewards, scans, budget, fnvars>>

RedeemUpdate(p) ==
    /\ procs[p].pc = "redeem_update"
    /\ LET user == procs[p].user
           reward == procs[p].reward
           new_points == user.points - reward.pointsCost
           new_category == get_category_from_points(new_points)
       IN
       /\ users' = update_one(procs[p].request.userId,
                              [points |-> new_points, category |-> new_category],
                              redeemed_item(reward))
       /\ Respond(p, Return([success |-> TRUE, newPoints |-> new_points,
                             newCategory |-> new_category]))
    /\ UNCHANGED <<containers, rewards, scans, budget, fnvars>>

(* -------------------------------- scan --------------------------------- *)

StartScan(p, userId, qrCode) ==
    /\ Free(p)
    /\ budget > 0
    /\ budget' = budget - 1
    /\ Continue(p, [Idle EXCEPT !.pc = "scan_find_container",
                                !.request = [userId |-> userId, qrCode |-> qrCode]])
    /\ UNCHANGED <<dbvars, fnvars>>

\* variant: the status check is missing
ScanFindContainer_no_status(p) ==
    /\ procs[p].pc = "scan_find_container"
    /\ LET qr_data == procs[p].request.qrCode IN
       \E container \in find_one(IF qr_data.valid
                                 THEN {c \in containers : c._id = qr_data.key}
                                 ELSE {c \in containers : c.name = qr_data.text}) :
          IF container = None
          THEN Respond(p, HTTPException(404, "Contenedor no válido"))
          ELSE IF ~procs[p].request.userId.valid
          THEN Respond(p, HTTPException(400, "InvalidId"))
          ELSE Continue(p, [procs[p] EXCEPT !.pc = "scan_find_user",
                                            !.container = container])
    /\ UNCHANGED <<dbvars, budget, fnvars>>

ScanFindContainer(p) ==
    /\ procs[p].pc = "scan_find_container"
    /\ LET qr_data == procs[p].request.qrCode IN
       \E container \in find_one(IF qr_data.valid
                                 THEN {c \in containers : c._id = qr_data.key}
                                 ELSE {c \in containers : c.name = qr_data.text}) :
          IF container = None
          THEN Respond(p, HTTPException(404, "Contenedor no válido"))
          ELSE IF container.status # "operational"
          THEN Respond(p, HTTPException(400, "Contenedor en mantenimiento"))
          ELSE IF ~procs[p].request.userId.valid
          THEN Respond(p, HTTPException(400, "InvalidId"))
          ELSE Continue(p, [procs[p] EXCEPT !.pc = "scan_find_user",
                                            !.container = container])
    /\ UNCHANGED <<dbvars, budget, fnvars>>

ScanFindUser(p) ==
    /\ procs[p].pc = "scan_find_user"
    /\ LET user == find_user_by_id(procs[p].request.userId) IN
       IF user = None
       THEN Respond(p, HTTPException(404, "Usuario no encontrado"))
       ELSE \E points_earned \in randint(10, 50) :
               Continue(p, [procs[p] EXCEPT !.pc = "scan_update",
                                            !.user = user,
                                            !.points_earned = points_earned])
    /\ UNCHANGED <<dbvars, budget, fnvars>>

\* variant: recycledKg is set to the kg of this scan alone
ScanUpdate_kg_overwritten(p) ==
    /\ procs[p].pc = "scan_update"
    /\ LET user == procs[p].user
           points_earned == procs[p].points_earned
           new_points == user.points + points_earned
           new_category == get_category_from_points(new_points)
           new_kg == points_earned
       IN
       /\ users' = update_one(procs[p].request.userId,
                              [points |-> new_points, category |-> new_category,
                               recycledKg |-> new_kg],
                              earned_item(points_earned, procs[p].container))
       /\ Continue(p, [procs[p] EXCEPT !.pc = "scan_insert"])
    /\ UNCHANGED <<containers, rewards, scans, budget, fnvars>>

ScanUpdate(p) ==
    /\ procs[p].pc = "scan_update"
    /\ LET user == procs[p].user
           points_earned == procs[p].points_earned
           new_points == user.points + points_earned
           new_category == get_category_from_points(new_points)
           new_kg == user.recycledKg + points_earned
       IN
       /\ users' = update_one(procs[p].request.userId,
                              [points |-> new_points, category |-> new_category,
                               recycledKg |-> new_kg],
                              earned_item(points_earned, procs[p].container))
       /\ Continue(p, [procs[p] EXCEPT !.pc = "scan_insert"])
    /\ UNCHANGED <<containers, rewards, scans, budget, fnvars>>

QRScan(userId, containerId, pointsEarned) ==
    [userId |-> userId, containerId |-> containerId, pointsEarned |-> pointsEarned]

ScanInsert(p) ==
    /\ procs[p].pc = "scan_insert"
    /\ LET points_earned == procs[p].points_earned
           new_points == procs[p].user.points + points_earned
           scan_record == QRScan(procs[p].request.userId, procs[p].container._id,
                                 points_earned)
       IN
       /\ scans' = scans (+) SetToBag({scan_record})
       /\ Respond(p, Return([success |-> TRUE, pointsEarned |-> points_earned,
                             newPoints |-> new_points,
                             newCategory |-> get_category_from_points(new_points),
                             containerName |-> procs[p].container.name,
                             kgRecycled |-> points_earned]))
    /\ UNCHANGED <<users, containers, rewards, budget, fnvars>>

(* ------------------------------ init-data ------------------------------ *)

StartInit(p) ==
    /\ Free(p)
    /\ Continue(p, [Idle EXCEPT !.pc = "init_count"])
    /\ UNCHANGED <<dbvars, budget, fnvars>>

\* variant: the seed is inserted whatever the count is
InitCount_no_check(p) ==
    /\ procs[p].pc = "init_count"
    /\ Continue(p, [procs[p] EXCEPT !.pc = "init_containers", !.i = 1])
    /\ UNCHANGED <<dbvars, budget, fnvars>>

InitCount(p) ==
    /\ procs[p].pc = "init_count"
    /\ LET existing_containers == Cardinality(containers) IN
       IF existing_containers > 0
       THEN Respond(p, Return([message |-> "Datos ya inicializados"]))
       ELSE Continue(p, [procs[p] EXCEPT !.pc = "init_containers", !.i = 1])
    /\ UNCHANGED <<dbvars, budget, fnvars>>

InitInsertContainer(p) ==
    /\ procs[p].pc = "init_containers"
    /\ LET i == procs[p].i IN
       /\ containers' = containers \cup {[_id |-> <<p, i>>] @@ containers_data[i]}
       /\ Continue(p, IF i < Len(containers_data)
                      THEN [procs[p] EXCEPT !.i = i + 1]
                      ELSE [procs[p] EXCEPT !.pc = "init_rewards", !.i = 1])
    /\ UNCHANGED <<users, rewards, scans, budget, fnvars>>

InitInsertReward(p) ==
    /\ procs[p].pc = "init_rewards"
    /\ LET i == procs[p].i IN
       /\ rewards' = rewards \cup {[_id |-> <<p, i>>] @@ rewards_data[i]}
       /\ IF i < Len(rewards_data)
          THEN Continue(p, [procs[p] EXCEPT !.i = i + 1])
          ELSE Respond(p, Return([message |-> "Datos inicializados correctamente",
                                  containers |-> Len(containers_data),
                                  rewards |-> Len(rewards_data)]))
    /\ UNCHANGED <<users, containers, scans, budget, fnvars>>

(* --------------------------- the whole server -------------------------- *)

Next ==
    \E p \in Procs :
       \/ \E email \in Emails : StartLogin(p, email)
       \/ LoginFind(p)
       \/ LoginInsert(p)
       \/ LoginRefetch(p)
       \/ \E email \in Emails : StartRegister(p, email)
       \/ RegisterFind(p)
       \/ RegisterInsert(p)
       \/ RegisterRefetch(p)
       \/ \E userId \in UserIdInputs, rewardId \in RewardIdInputs :
             StartRedeem(p, userId, rewardId)
       \/ RedeemFindUser(p)
       \/ RedeemFindReward(p)
       \/ RedeemUpdate(p)
       \/ \E userId \in UserIdInputs, qrCode \in QrInputs : StartScan(p, userId, qrCode)
       \/ ScanFindContainer(p)
       \/ ScanFindUser(p)
       \/ ScanUpdate(p)
       \/ ScanInsert(p)
       \/ StartInit(p)
       \/ InitCount(p)
       \/ InitInsertContainer(p)
       \/ InitInsertReward(p)

Spec == Init /\ [][Next]_vars

(* ---------------- the category functions on their own ------------------ *)

\* arguments at and next to the thresholds, for the second argument
FnSamples == {0, 99, 100, 299, 300, 599, 600, 999, 1000, MaxArg}

InitFn ==
    /\ users = EmptyStore.users
    /\ containers = EmptyStore.containers
    /\ rewards = EmptyStore.rewards
    /\ scans = EmptyStore.scans
    /\ procs = [p \in Procs |-> Idle]
    /\ response = None
    /\ budget = 0
    /\ fnP \in 0 .. MaxArg
    /\ fnQ \in FnSamples
    /\ fnCatP = "unset" /\ fnCatQ = "unset" /\ fnNext = <<>>

CallCategory ==
    /\ fnCatP' = get_category_from_points(fnP)
    /\ fnCatQ' = get_category_from_points(fnQ)
    /\ UNCHANGED <<dbvars, procs, response, budget, fnP, fnQ, fnNext>>

\* the result is kept in a one-element tuple, <<>> meaning not called yet
CallNextInfo ==
    /\ fnNext' = <<get_next_category_info(fnP)>>
    /\ UNCHANGED <<dbvars, procs, response, budget, fnP, fnQ, fnCatP, fnCatQ>>

NextFn == CallCategory \/ CallNextInfo

SpecFn == InitFn /\ [][NextFn]_vars

(* ============================== claims ================================= *)

\* slot p takes a step
Stepped(p) == procs'[p] # procs[p]

\* slot p takes the step that starts at position pc
StepFrom(p, pc) == procs[p].pc = pc /\ Stepped(p)

\* the user document with key oid in the collection us, or None
UserDoc(us, oid) ==
    IF \E k \in 1 .. Len(us) : us[k]._id = oid.key
    THEN us[CHOOSE k \in 1 .. Len(us) : us[k]._id = oid.key]
    ELSE None

\* every user document but the one with key oid is the same after the step
OtherUsersUnchanged(oid) ==
    /\ Len(users') = Len(users)
    /\ \A k \in 1 .. Len(users) : users[k]._id # oid.key => users'[k] = users[k]

\* the reward documents the reward lookup of slot p finds
RewardMatches(p) == {r \in rewards : r._id = procs[p].request.rewardId.key}

\* the container documents the container lookup of slot p finds
ContainerMatches(p) ==
    IF procs[p].request.qrCode.valid
    THEN {c \in containers : c._id = procs[p].request.qrCode.key}
    ELSE {c \in containers : c.name = procs[p].request.qrCode.text}

TierIndex(category) ==
    (CHOOSE k \in 1 .. Len(cat_order) : cat_order[k] = category) - 1

Last(seq) == seq[Len(seq)]

IsBody(r, field) ==
    /\ "body" \in DOMAIN r
    /\ field \in DOMAIN r.body

\* C1: in every reachable state, under any interleaving of login, register,
\* scan and redeem requests, the stored category of every user is
\* get_category_from_points of that user's stored points.
C1_CategoryFollowsPoints ==
    \A k \in 1 .. Len(users) :
        users[k].category = get_category_from_points(users[k].points)

\* a redeem has taken a user from Oro down to Plata
C1_Witness ==
    \E k \in 1 .. Len(users) :
        /\ users[k].pointsHistory # <<>>
        /\ Last(users[k].pointsHistory).type = "redeemed"
        /\ users[k].points = 250
        /\ users[k].category = "Plata"

\* C2: a redeem of an existing reward by an existing user whose points are
\* below the cost ends with "Puntos insuficientes", and no step of that
\* request changes any collection.
C2_InsufficientPointsRejected ==
    [][\A p \in Procs :
          /\ (procs[p].pc = "idle" /\ procs'[p].pc = "redeem_find_user")
                => UNCHANGED dbvars
          /\ StepFrom(p, "redeem_find_user") => UNCHANGED dbvars
          /\ StepFrom(p, "redeem_find_reward") =>
                /\ UNCHANGED dbvars
                /\ \A r \in RewardMatches(p) :
                      procs[p].user.points < r.pointsCost =>
                         /\ procs'[p] = Idle
                         /\ response' = [status |-> 400,
                                         detail |-> "Puntos insuficientes"]
      ]_vars

\* a user without points has been refused
C2_Witness ==
    /\ response = [status |-> 400, detail |-> "Puntos insuficientes"]
    /\ \E k \in 1 .. Len(users) : users[k].points = 0 /\ users[k].pointsHistory = <<>>

C4_MaintenanceRejected ==
    [][\A p \in Procs :
          /\ (procs[p].pc = "idle" /\ procs'[p].pc = "scan_find_container")
                => UNCHANGED dbvars
          /\ StepFrom(p, "scan_find_container") =>
                /\ UNCHANGED dbvars
                /\ (/\ ContainerMatches(p) # {}
                    /\ \A c \in ContainerMatches(p) : c.status # "operational")
                      => /\ procs'[p] = Idle
                         /\ response' = [status |-> 400,
                                         detail |-> "Contenedor en mantenimiento"]
      ]_vars

\* the scan was refused while no user existed at all
C4_Witness ==
    /\ response = [status |-> 400, detail |-> "Contenedor en mantenimiento"]
    /\ users = <<>>

\* the audit records are those before the step plus exactly the record rec
OneScanInserted(rec) ==
    /\ BagCardinality(scans') = BagCardinality(scans) + 1
    /\ CopiesIn(rec, scans') = CopiesIn(rec, scans) + 1
    /\ \A other \in BagToSet(scans) : other # rec =>
          CopiesIn(other, scans') = CopiesIn(other, scans)

\* C5: a successful scan draws pointsEarned in 10..50; when no other request
\* wrote the user since the scan read it, its update adds pointsEarned to
\* points, pointsEarned tenths of a kg to recycledKg and one "earned" entry of
\* pointsEarned at the end of pointsHistory, and nothing else; then exactly
\* one audit record {userId, containerId, pointsEarned} is inserted, and the
\* audit collection changes in no other step.
C5_ScanEffect ==
    [][/\ \A p \in Procs :
          /\ procs'[p].pc = "scan_update" =>
                /\ procs'[p].points_earned >= 10
                /\ procs'[p].points_earned <= 50
          /\ (/\ StepFrom(p, "scan_update")
              /\ UserDoc(users, procs[p].request.userId) = procs[p].user) =>
                LET before == procs[p].user
                    after == UserDoc(users', procs[p].request.userId)
                    earned == procs[p].points_earned
                IN /\ procs'[p] = [procs[p] EXCEPT !.pc = "scan_insert"]
                   /\ after.points = before.points + earned
                   /\ after.recycledKg = before.recycledKg + earned
                   /\ Len(after.pointsHistory) = Len(before.pointsHistory) + 1
                   /\ SubSeq(after.pointsHistory, 1, Len(before.pointsHistory))
                         = before.pointsHistory
                   /\ Last(after.pointsHistory).type = "earned"
                   /\ Last(after.pointsHistory).points = earned
                   /\ after.email = before.email
                   /\ OtherUsersUnchanged(procs[p].request.userId)
                   /\ UNCHANGED <<containers, rewards, scans>>
          /\ StepFrom(p, "scan_insert") =>
                /\ OneScanInserted([userId       |-> procs[p].request.userId,
                                    containerId  |-> procs[p].container._id,
                                    pointsEarned |-> procs[p].points_earned])
                /\ UNCHANGED <<users, containers, rewards>>
                /\ procs'[p] = Idle
                /\ response'.status = 200
                /\ response'.body.pointsEarned = procs[p].points_earned
       /\ scans' # scans => \E p \in Procs : StepFrom(p, "scan_insert")
      ]_vars

\* a new user has been through one whole scan of 10 points
C5_Witness ==
    /\ IsBody(response, "pointsEarned")
    /\ response.body.pointsEarned = 10
    /\ \E k \in 1 .. Len(users) :
          /\ users[k].points = 10
          /\ users[k].recycledKg = 10
          /\ Len(users[k].pointsHistory) = 1
          /\ BagCardinality(scans) = 1

\* C6: when no other request wrote the user since the redeem read it, the
\* update of an accepted redeem takes the cost from points, sets category to
\* get_category_from_points of the new points and appends one "redeemed"
\* entry of minus the cost at the end of pointsHistory; recycledKg, the
\* rewards and the audit records stay as they were.
C6_RedeemEffect ==
    [][\A p \in Procs :
          (/\ StepFrom(p, "redeem_update")
           /\ UserDoc(users, procs[p].request.userId) = procs[p].user) =>
             LET before == procs[p].user
                 after == UserDoc(users', procs[p].request.userId)
                 cost == procs[p].reward.pointsCost
             IN /\ before.points >= cost
                /\ TierIndex(before.category) >= TierIndex(procs[p].reward.category)
                /\ procs[p].reward \in rewards
                /\ after.points = before.points - cost
                /\ after.category = get_category_from_points(before.points - cost)
                /\ Len(after.pointsHistory) = Len(before.pointsHistory) + 1
                /\ SubSeq(after.pointsHistory, 1, Len(before.pointsHistory))
                      = before.pointsHistory
                /\ Last(after.pointsHistory).type = "redeemed"
                /\ Last(after.pointsHistory).points = -cost
                /\ after.recycledKg = before.recycledKg
                /\ after.email = before.email
                /\ OtherUsersUnchanged(procs[p].request.userId)
                /\ UNCHANGED <<containers, rewards, scans>>
                /\ procs'[p] = Idle
                /\ response'.status = 200
      ]_vars

\* an Oro user has paid 250 points and dropped to Clásico
C6_Witness ==
    /\ IsBody(response, "newCategory")
    /\ ~IsBody(response, "pointsEarned")
    /\ response.body.newPoints = 50
    /\ \E k \in 1 .. Len(users) :
          /\ users[k].points = 50
          /\ users[k].category = "Clásico"
          /\ Last(users[k].pointsHistory).points = -250
          /\ users[k].recycledKg = 300

\* the highest tier of the ladder whose threshold is at most p
HighestTier(p) ==
    cat_order[CHOOSE k \in 1 .. Len(cat_order) :
                 /\ get_category_requirements(cat_order[k]) <= p
                 /\ \A j \in 1 .. Len(cat_order) :
                       get_category_requirements(cat_order[j]) <= p => j <= k]

BoundaryTable ==
    { <<0, "Clásico">>, <<99, "Clásico">>, <<100, "Plata">>, <<299, "Plata">>,
      <<300, "Oro">>, <<599, "Oro">>, <<600, "Diamante">>, <<999, "Diamante">>,
      <<1000, "Black">> }

\* C7: get_category_from_points(p) is the highest tier whose threshold is at
\* most p, is non-decreasing in p, and has the values of the threshold table
\* at and just below each boundary.
C7_CategoryFromPoints ==
    fnCatP # "unset" =>
       /\ fnCatP = HighestTier(fnP)
       /\ fnCatQ = HighestTier(fnQ)
       /\ fnP <= fnQ => TierIndex(fnCatP) <= TierIndex(fnCatQ)
       /\ fnQ <= fnP => TierIndex(fnCatQ) <= TierIndex(fnCatP)
       /\ \A b \in BoundaryTable : fnP = b[1] => fnCatP = b[2]

\* the function was applied just below a boundary and above it
C7_Witness ==
    /\ fnP = 299 /\ fnCatP = "Plata"
    /\ fnQ = 300 /\ fnCatQ = "Oro"

\* C8: get_next_category_info(p) is None exactly when p >= 1000; below that
\* it names the lowest threshold above p with its tier, pointsNeeded =
\* threshold - p >= 1, currentPoints = p and totalPoints = threshold; at 0 it
\* is Plata with pointsNeeded 100 and progress 0.
C8_NextCategoryInfo ==
    fnNext # <<>> =>
       LET info == fnNext[1] IN
       /\ (info = None) <=> (fnP >= 1000)
       /\ fnP < 1000 =>
             LET t == CHOOSE t \in {100, 300, 600, 1000} :
                         /\ fnP < t
                         /\ \A u \in {100, 300, 600, 1000} : fnP < u => t <= u
             IN /\ info.totalPoints = t
                /\ get_category_requirements(info.name) = t
                /\ info.name \in {cat_order[k] : k \in 2 .. Len(cat_order)}
                /\ info.pointsNeeded = t - fnP
                /\ info.currentPoints = fnP
                /\ info.pointsNeeded + info.currentPoints = info.totalPoints
                /\ info.pointsNeeded >= 1
       /\ fnP = 0 =>
             /\ info.name = "Plata"
             /\ info.pointsNeeded = 100
             /\ info.progress[1] = 0

\* the function was applied one point below the last threshold
C8_Witness ==
    /\ fnP = 999
    /\ fnNext # <<>>
    /\ fnNext[1] # None
    /\ fnNext[1].name = "Black"
    /\ fnNext[1].pointsNeeded = 1

\* one request has seeded both collections and no other is still inserting
SeededOnce ==
    /\ \E q \in Procs : containers = seed_containers(q) /\ rewards = seed_rewards(q)
    /\ \A q \in Procs : procs[q].pc \notin {"init_containers", "init_rewards"}

\* C9: an init-data call that finds the containers collection non-empty
\* inserts nothing; once a first call has seeded the 5 containers and the 13
\* rewards, no later call changes either collection.
C9_InitDataIdempotent ==
    [][/\ \A p \in Procs :
             (StepFrom(p, "init_count") /\ containers # {}) =>
                /\ procs'[p] = Idle
                /\ response'.body.message = "Datos ya inicializados"
                /\ UNCHANGED dbvars
       /\ SeededOnce =>
             /\ Cardinality(containers) = 5
             /\ Cardinality(rewards) = 13
             /\ containers' = containers
             /\ rewards' = rewards
      ]_vars

\* the second call of a fresh deployment found the seed in place
C9_Witness ==
    /\ users = <<>>
    /\ scans = EmptyBag
    /\ IsBody(response, "message")
    /\ response.body.message = "Datos ya inicializados"
    /\ SeededOnce

\* C10: under any interleaving of login, scan and redeem requests no step
\* takes the recycledKg of a user to a smaller value.
C10_RecycledKgNeverDecreases ==
    [][\A k \in 1 .. Len(users) : users'[k].recycledKg >= users[k].recycledKg]_vars

\* the points delta of the update that slot p is about to write
Delta(p) ==
    IF procs[p].pc = "redeem_update"
    THEN -procs[p].reward.pointsCost
    ELSE procs[p].points_earned

RECURSIVE SumPoints(_)
SumPoints(history) ==
    IF history = <<>> THEN 0
    ELSE Last(history).points + SumPoints(SubSeq(history, 1, Len(history) - 1))

\* C11: scan and redeem can lose an update.  When another request has
\* written the user between the read and the write of a scan or redeem, the
\* write still succeeds and appends its entry after the entries already in
\* the store, but the points it stores are the points it read plus its own
\* delta, so the deltas written in between are dropped from points.
C11_LostUpdate ==
    [][\A p \in Procs :
          (/\ StepFrom(p, "redeem_update") \/ StepFrom(p, "scan_update")
           /\ UserDoc(users, procs[p].request.userId) # procs[p].user) =>
             LET read == procs[p].user
                 stored == UserDoc(users, procs[p].request.userId)
                 after == UserDoc(users', procs[p].request.userId)
             IN /\ Len(stored.pointsHistory) > Len(read.pointsHistory)
                /\ SubSeq(stored.pointsHistory, 1, Len(read.pointsHistory))
                      = read.pointsHistory
                /\ after.points = read.points + Delta(p)
                /\ after.category = get_category_from_points(read.points + Delta(p))
                /\ Len(after.pointsHistory) = Len(stored.pointsHistory) + 1
                /\ SubSeq(after.pointsHistory, 1, Len(stored.pointsHistory))
                      = stored.pointsHistory
                /\ Last(after.pointsHistory).points = Delta(p)
                /\ stored.points # read.points => after.points # stored.points + Delta(p)
                /\ procs[p].pc = "redeem_update" =>
                      /\ procs'[p] = Idle
                      /\ response'.status = 200
                      /\ response'.body.newPoints = read.points + Delta(p)
                /\ procs[p].pc = "scan_update" => procs'[p].pc = "scan_insert"
      ]_vars

\* two redeems of Café Gratis by the user of 300 points were both accepted
\* and both entered in the history, and the cost was taken once
C11_Witness ==
    /\ \A p \in Procs : procs[p].pc = "idle"
    /\ response = Return([success |-> TRUE, newPoints |-> 250, newCategory |-> "Plata"])
    /\ \E k \in 1 .. Len(users) :
          LET h == users[k].pointsHistory IN
          /\ Len(h) = 8
          /\ h[7].type = "redeemed" /\ h[7].points = -50
          /\ h[8].type = "redeemed" /\ h[8].points = -50
          /\ SumPoints(h) = 200
          /\ users[k].points = 250

====
